---- MODULE Spec2Model ----
(***************************************************************************)
(* Model of the PDF QR Code API (src/main.py): one request to the          *)
(* /add-qr-to-pdf/ endpoint, from the upload to the HTTP response.         *)
(*                                                                         *)
(* A byte buffer is a sequence of tokens; each token stands for one byte   *)
(* run of a PDF file (header, page object, comment padding, trailer) or    *)
(* for a byte of foreign content.  Page widths and heights are whole       *)
(* points.                                                                 *)
(*                                                                         *)
(* The sizes and positions of the overlay are Python floats, and the model *)
(* holds them as what they are: IEEE 754 binary64 numbers, a sign, a       *)
(* 53-bit significand and a power of two.  Multiplication, addition,       *)
(* subtraction and division round to nearest, ties to even, as the         *)
(* hardware does.  The power ** 0.3 is the one operation whose last bit    *)
(* the language does not fix (it is the C library's pow): where the exact  *)
(* power lies within 1/32 of a unit in the last place of the midpoint of   *)
(* two doubles the model allows either of them, elsewhere the nearer one.  *)
(***************************************************************************)
EXTENDS Integers, Sequences, FiniteSets, TLC

\* ------------------------------------------------------------------------
\* Bounds of the model
\* ------------------------------------------------------------------------
MaxPages == 3
MaxExtra == 1

\* ------------------------------------------------------------------------
\* Program constants
\* ------------------------------------------------------------------------
ChunkSize == 2048
min_qr_size == 100
margin == 20
padding == 2
box_size == 10
border == 4

PdfMime == "application/pdf"

Min(a, b) == IF a <= b THEN a ELSE b
Max(a, b) == IF a >= b THEN a ELSE b

\* ------------------------------------------------------------------------
\* Naturals beyond the machine word, for the significands: little-endian
\* sequences of limbs of LimbBits bits, without leading zero limbs (zero is
\* the empty sequence).  Where an intermediate result is bound as the element
\* of a singleton set, CHOOSE y \in { F(x) : x \in { e } } : TRUE, it is
\* F(e), with e evaluated before F.
\* ------------------------------------------------------------------------
LimbBits == 14
Base == 2 ^ LimbBits

RECURSIVE ToBig(_)
ToBig(n) == IF n = 0 THEN <<>> ELSE <<n % Base>> \o ToBig(n \div Base)

\* Limb i of a, zero beyond its length.
Limb(a, i) == IF 1 <= i /\ i <= Len(a) THEN a[i] ELSE 0

\* a without its leading zero limbs
BigTrim(a) ==
    LET z == CHOOSE d \in 0..Len(a) :
                 /\ d = Len(a) \/ a[Len(a) - d] # 0
                 /\ \A e \in 0..(d - 1) : a[Len(a) - e] = 0
    IN  SubSeq(a, 1, Len(a) - z)

\* a + b.  The carry into limb k comes from the nearest limb below it whose
\* sum is not Base - 1.
BigAdd(a, b) ==
    LET n == Max(Len(a), Len(b))
        s == [i \in 1..n |-> Limb(a, i) + Limb(b, i)]
        Carry(k) ==
            /\ k > 1
            /\ \/ s[k - 1] >= Base
               \/ /\ s[k - 1] = Base - 1
                  /\ \E j \in 1..(k - 2) :
                        /\ s[j] >= Base
                        /\ \A i \in (j + 1)..(k - 2) : s[i] = Base - 1
    IN  BigTrim([k \in 1..(n + 1) |->
                    ((IF k <= n THEN s[k] ELSE 0)
                     + (IF Carry(k) THEN 1 ELSE 0)) % Base])

\* a - b for a >= b; the borrows as the carries of the sum.
BigSub(a, b) ==
    LET d == [i \in 1..Len(a) |-> a[i] - Limb(b, i)]
        Borrow(k) ==
            /\ k > 1
            /\ \/ d[k - 1] < 0
               \/ /\ d[k - 1] = 0
                  /\ \E j \in 1..(k - 2) :
                        /\ d[j] < 0
                        /\ \A i \in (j + 1)..(k - 2) : d[i] = 0
    IN  BigTrim([k \in 1..Len(a) |->
                    (d[k] - (IF Borrow(k) THEN 1 ELSE 0)) % Base])

\* a * m for a limb m
BigMulLimb(a, m) ==
    BigAdd([i \in 1..Len(a) |-> (a[i] * m) % Base],
           <<0>> \o [i \in 1..Len(a) |-> (a[i] * m) \div Base])

\* f[lo] + ... + f[hi]
RECURSIVE SumOver(_, _, _)
SumOver(f, lo, hi) ==
    IF lo > hi THEN 0
    ELSE IF lo = hi THEN f[lo]
    ELSE SumOver(f, lo, (lo + hi) \div 2)
         + SumOver(f, (lo + hi) \div 2 + 1, hi)

\* a * b: column k collects the low halves of the limb products a[i] * b[j]
\* with i + j = k + 1 and the high halves of those of column k - 1.
Columns(a, b) ==
    LET From(k) == Max(1, k + 1 - Len(b))
        To(k) == Min(Len(a), k)
        ColLo(k) == SumOver([i \in 1..Len(a) |->
                                (a[i] * Limb(b, k + 1 - i)) % Base],
                            From(k), To(k))
        ColHi(k) == SumOver([i \in 1..Len(a) |->
                                (a[i] * Limb(b, k + 1 - i)) \div Base],
                            From(k), To(k))
    IN  <<>> \o [k \in 1..(Len(a) + Len(b)) |-> ColLo(k) + ColHi(k - 1)]
BigMul(a, b) ==
    IF a = <<>> \/ b = <<>> THEN <<>>
    ELSE CHOOSE p \in { BigAdd([k \in 1..Len(col) |-> col[k] % Base],
                               <<0>> \o [k \in 1..Len(col) |->
                                            col[k] \div Base]) :
                           col \in { Columns(a, b) } } : TRUE

\* a <= b
BigLeq(a, b) ==
    IF Len(a) # Len(b) THEN Len(a) < Len(b)
    ELSE ~\E i \in 1..Len(a) :
            /\ a[i] > b[i]
            /\ \A j \in (i + 1)..Len(a) : a[j] = b[j]

BigSquare(a) == BigMul(a, a)
BigCube(a) == BigMul(a, BigSquare(a))
BigPow5(a) == BigMul(a, BigSquare(BigSquare(a)))

\* Number of bits of the limb n
IntBits(n) ==
    CHOOSE k \in 0..LimbBits : n < 2 ^ k /\ (k = 0 \/ n >= 2 ^ (k - 1))

\* Number of bits of a; its bit i (bit 0 the lowest); whether some bit
\* below bit i is set.
BitLen(a) ==
    IF a = <<>> THEN 0 ELSE LimbBits * (Len(a) - 1) + IntBits(a[Len(a)])
BitAt(a, i) ==
    IF i \div LimbBits + 1 > Len(a) THEN 0
    ELSE (a[i \div LimbBits + 1] \div 2 ^ (i % LimbBits)) % 2
LowBits(a, i) ==
    \/ \E j \in 1..Min(i \div LimbBits, Len(a)) : a[j] # 0
    \/ /\ i \div LimbBits + 1 <= Len(a)
       /\ a[i \div LimbBits + 1] % 2 ^ (i % LimbBits) # 0

\* a * 2^k and floor(a / 2^k)
ShiftLeft(a, k) ==
    LET w == k \div LimbBits
        p == 2 ^ (k % LimbBits)
    IN  BigTrim([j \in 1..(Len(a) + w + 1) |->
                 IF j <= w THEN 0
                 ELSE ((Limb(a, j - w) * p) % Base)
                      + ((Limb(a, j - w - 1) * p) \div Base)])
ShiftRight(a, k) ==
    LET w == k \div LimbBits
        p == 2 ^ (k % LimbBits)
        n == Len(a) - w
    IN  IF n <= 0 THEN <<>>
        ELSE BigTrim([j \in 1..n |->
                 a[j + w] \div p
                 + (IF j < n THEN (a[j + w + 1] % p) * (Base \div p) ELSE 0)])
Pow2(k) == ShiftLeft(<<1>>, k)

\* The largest q with q * D <= N (q^2 <= N, q^5 <= N), its bits hi down to
\* lo decided from the top given the bits above hi: first the upper half of
\* them, then the lower half given the upper.
RECURSIVE QuotBits(_, _, _, _, _)
QuotBits(N, D, q, hi, lo) ==
    IF hi = lo
    THEN LET c == BigAdd(q, Pow2(hi))
         IN  IF BigLeq(BigMul(c, D), N) THEN c ELSE q
    ELSE LET mid == (hi + lo + 1) \div 2
         IN  CHOOSE low \in { QuotBits(N, D, high, mid - 1, lo) :
                                high \in { QuotBits(N, D, q, hi, mid) } } : TRUE
BigDiv(N, D) ==
    QuotBits(N, D, <<>>, LimbBits * (Len(N) - Len(D) + 2) - 1, 0)

RECURSIVE SqrtBits(_, _, _, _)
SqrtBits(N, r, hi, lo) ==
    IF hi = lo
    THEN LET c == BigAdd(r, Pow2(hi))
         IN  IF BigLeq(BigSquare(c), N) THEN c ELSE r
    ELSE LET mid == (hi + lo + 1) \div 2
         IN  CHOOSE low \in { SqrtBits(N, high, mid - 1, lo) :
                                high \in { SqrtBits(N, r, hi, mid) } } : TRUE
BigSqrt(N) == SqrtBits(N, <<>>, LimbBits * (Len(N) \div 2 + 1) - 1, 0)

RECURSIVE Root5Bits(_, _, _, _)
Root5Bits(N, r, hi, lo) ==
    IF hi = lo
    THEN LET c == BigAdd(r, Pow2(hi))
         IN  IF BigLeq(BigPow5(c), N) THEN c ELSE r
    ELSE LET mid == (hi + lo + 1) \div 2
         IN  CHOOSE low \in { Root5Bits(N, high, mid - 1, lo) :
                                high \in { Root5Bits(N, r, hi, mid) } } : TRUE
BigRoot5(N) == Root5Bits(N, <<>>, LimbBits * (Len(N) \div 5 + 1) - 1, 0)

\* ------------------------------------------------------------------------
\* Python floats: IEEE 754 binary64.  [neg, man, exp] is the number
\* (-1)^neg * man * 2^exp, man of exactly Precision bits, or zero.
\* ------------------------------------------------------------------------
Precision == 53

Zero == [neg |-> FALSE, man |-> <<>>, exp |-> 0]

\* The double nearest to n * 2^e, ties to even; sticky tells that the
\* number rounded lies above n * 2^e by less than 2^e.
RoundBits(n, sticky, e) ==
    LET k == BitLen(n) - Precision
    IN  IF n = <<>> THEN Zero
        ELSE IF k <= 0
        THEN [neg |-> FALSE, man |-> ShiftLeft(n, -k), exp |-> e + k]
        ELSE LET q    == ShiftRight(n, k)
                 half == BitAt(n, k - 1) = 1
                 low  == sticky \/ LowBits(n, k - 1)
                 up   == half /\ (low \/ BitAt(q, 0) = 1)
                 r    == IF up THEN BigAdd(q, <<1>>) ELSE q
             IN  IF BitLen(r) > Precision
                 THEN [neg |-> FALSE, man |-> ShiftRight(r, 1),
                       exp |-> e + k + 1]
                 ELSE [neg |-> FALSE, man |-> r, exp |-> e + k]

\* The doubles the C library may return for a result of that value: the
\* two around it where it lies within 1/32 of a unit in the last place of
\* their midpoint, else the nearest.
RoundFaithful(n, sticky, e) ==
    LET k  == BitLen(n) - Precision
        f  == IF k < 5 THEN 0
              ELSE 16 * BitAt(n, k - 1) + 8 * BitAt(n, k - 2)
                   + 4 * BitAt(n, k - 3) + 2 * BitAt(n, k - 4)
                   + BitAt(n, k - 5)
        lo == RoundBits(ShiftRight(n, k), FALSE, e + k)
        hi == RoundBits(BigAdd(ShiftRight(n, k), <<1>>), FALSE, e + k)
    IN  IF k >= 5 /\ f \in {15, 16} THEN {lo, hi}
        ELSE {RoundBits(n, sticky, e)}

Neg(a) == IF a.man = <<>> THEN a ELSE [a EXCEPT !.neg = ~a.neg]

\* float(n) for a natural n
OfInt(n) == RoundBits(ToBig(n), FALSE, 0)

\* The double a decimal literal of value num / den denotes.
OfRatio(num, den) ==
    LET scaled == ShiftLeft(ToBig(num), 6 * LimbBits)
        q      == BigDiv(scaled, ToBig(den))
    IN  RoundBits(q, BigMul(q, ToBig(den)) # scaled, -6 * LimbBits)

\* a * b
DblMul(a, b) ==
    LET r == RoundBits(BigMul(a.man, b.man), FALSE, a.exp + b.exp)
    IN  IF a.neg # b.neg THEN Neg(r) ELSE r

\* a / b, b not zero
DblDiv(a, b) ==
    LET n == ShiftLeft(a.man, 5 * LimbBits)
        q == BigDiv(n, b.man)
        r == RoundBits(q, BigMul(q, b.man) # n, a.exp - b.exp - 5 * LimbBits)
    IN  IF a.neg # b.neg THEN Neg(r) ELSE r

\* |a| <= |b|
MagLeq(a, b) ==
    IF a.man = <<>> THEN TRUE
    ELSE IF b.man = <<>> THEN FALSE
    ELSE IF a.exp # b.exp THEN a.exp < b.exp
    ELSE BigLeq(a.man, b.man)

DblLeq(a, b) ==
    IF a.neg /\ ~b.neg THEN TRUE
    ELSE IF ~a.neg /\ b.neg THEN FALSE
    ELSE IF a.neg THEN MagLeq(b, a)
    ELSE MagLeq(a, b)
DblLess(a, b) == ~DblLeq(b, a)

\* a + b and a - b
DblAdd(a, b) ==
    LET e  == Min(a.exp, b.exp)
        ma == ShiftLeft(a.man, a.exp - e)
        mb == ShiftLeft(b.man, b.exp - e)
    IN  IF a.neg = b.neg
        THEN [RoundBits(BigAdd(ma, mb), FALSE, e) EXCEPT !.neg = a.neg]
        ELSE IF ma = mb THEN Zero
        ELSE IF BigLeq(mb, ma)
        THEN [RoundBits(BigSub(ma, mb), FALSE, e) EXCEPT !.neg = a.neg]
        ELSE [RoundBits(BigSub(mb, ma), FALSE, e) EXCEPT !.neg = b.neg]
DblSub(a, b) == DblAdd(a, Neg(b))

\* Python's min(a, b) and max(a, b): the first argument, unless the second
\* is smaller (larger).
PyMin(a, b) == IF DblLess(b, a) THEN b ELSE a
PyMax(a, b) == IF DblLess(a, b) THEN b ELSE a

\* The literals 0.3, 0.1 and 0.2 of lines 124-125.
Exponent == OfRatio(3, 10)
Tenth == OfRatio(1, 10)
Fifth == OfRatio(2, 10)

\* log2 of the double b >= 1 in units of 2^-12: its exponent, and twelve
\* bits of the logarithm of its leading bits, by repeated squaring.
Log2Step(st) ==
    LET sq == (st.x * st.x) \div Base
    IN  IF sq >= 2 * Base THEN [x |-> sq \div 2, frac |-> 2 * st.frac + 1]
        ELSE [x |-> sq, frac |-> 2 * st.frac]
RECURSIVE Log2Steps(_, _)
Log2Steps(st, i) ==
    IF i = 1 THEN Log2Step(st)
    ELSE CHOOSE last \in { Log2Steps(half, i - i \div 2) :
                             half \in { Log2Steps(st, i \div 2) } } : TRUE
Log2Fix(b) ==
    LET lead == ShiftRight(b.man, Precision - 1 - LimbBits)
    IN  (b.exp + Precision - 1) * 2 ^ 12
        + Log2Steps([x |-> lead[1] + Base * lead[2], frac |-> 0], 12).frac

\* 3/10 - Exponent = DeltaNum / (10 * 2^-Exponent.exp): the double 0.3 is
\* not 3/10.
DeltaNum ==
    BigSub(ShiftLeft(<<3>>, -Exponent.exp), BigMulLimb(Exponent.man, 10))

FifthShift == 250

\* b ** 0.3 for a double b >= 1.  With d the double 0.3,
\*   b^d = b^(3/10) * (1 - (3/10 - d) * ln b)
\* to well below the last bit of the result; b^(3/10) is the fifth root of
\* the square root of b^3, and ln b = log2 b * ln 2 with ln 2 = 22713/2^15.
PowCandidates(b) ==
    LET odd  == (3 * b.exp) % 2 = 1
        cube == IF odd THEN BigMulLimb(BigCube(b.man), 2)
                ELSE BigCube(b.man)
        h    == (3 * b.exp - (IF odd THEN 1 ELSE 0)) \div 2
        m    == FifthShift + (h % 5)
        L    == BigMul(DeltaNum, BigMul(ToBig(Log2Fix(b)), ToBig(22713)))
        one  == ShiftLeft(<<10>>, 27 - Exponent.exp)
    IN  IF b.man = <<>> THEN {Zero}
        ELSE UNION { RoundFaithful(BigDiv(BigMul(r, BigSub(one, L)), <<10>>),
                                   TRUE, (h - m) \div 5 + Exponent.exp - 27) :
                       r \in { BigRoot5(ShiftLeft(s, m)) :
                                 s \in { BigSqrt(cube) } } }

\* ------------------------------------------------------------------------
\* Overlay geometry (add_qr_to_pdf, lines 122-136)
\* ------------------------------------------------------------------------

\* First-page sizes (points) and what each exercises in the size clamp.
PageSizes ==
    { <<612, 792>>,            \* US Letter: floor wins, ceiling above it
      <<200, 200>>,            \* small page: ceiling below the floor
      <<499, 900>>,            \* just under the 500 point threshold
      <<500, 500>>,            \* ceiling equals the floor
      <<643, 53953155>>,       \* target above the ceiling, 643 * 0.2 inexact
      <<161051, 161051>>,      \* area a tenth power: target just below 133.1
      <<505438, 753768>>,      \* target decides, its power near a midpoint
      <<1000000, 1000000>> }   \* target between floor and ceiling

\* max_qr_size = min(page_width, page_height) * 0.2
MaxQrSize(W, H) == DblMul(PyMin(OfInt(W), OfInt(H)), Fifth)

\* (page_width * page_height) ** 0.3; for the pages of the model it is
\* computed once.
AreaPowers(W, H) == PowCandidates(DblMul(OfInt(W), OfInt(H)))
PagePowers == [s \in PageSizes |-> AreaPowers(s[1], s[2])]

\* target_size = (page_width * page_height) ** 0.3 * 0.1
TargetSizes(W, H) ==
    { DblMul(p, Tenth) :
        p \in IF <<W, H>> \in PageSizes THEN PagePowers[<<W, H>>]
              ELSE AreaPowers(W, H) }

\* qr_size = max(min_qr_size, min(target_size, max_qr_size))
QrSizeCeilingWins(target, maxsz) ==
    PyMin(maxsz, PyMax(OfInt(min_qr_size), target))
QrSize(target, maxsz) ==
    PyMax(OfInt(min_qr_size), PyMin(target, maxsz))

\* x = page_width - qr_size - margin - padding (likewise y from the height)
OverlayOriginNoPadding(extent, qr_size) ==
    DblSub(DblSub(OfInt(extent), qr_size), OfInt(margin))
OverlayOrigin(extent, qr_size) ==
    DblSub(DblSub(DblSub(OfInt(extent), qr_size), OfInt(margin)),
           OfInt(padding))

\* ------------------------------------------------------------------------
\* Byte buffers
\* ------------------------------------------------------------------------
\* What is on the overlay canvas: sized tells that the geometry has been
\* computed and the background drawn, drawn that the QR drawing is on it.
NoOverlay ==
    [sized |-> FALSE, drawn |-> FALSE,
     qr_size |-> Zero, x |-> Zero, y |-> Zero,
     bg_x |-> Zero, bg_y |-> Zero, bg_side |-> Zero,
     img_x |-> Zero, img_y |-> Zero, img_side |-> Zero]

Tok(t) == [t |-> t]

Header  == Tok("%PDF-")
Trailer == Tok("%%EOF")
Pad     == Tok("pad")
Jpeg    == Tok("jpeg")
NoPage  == [t |-> "none", w |-> 0, h |-> 0, c |-> 0, ov |-> NoOverlay]

\* A page object with media box (w, h) and content c.
Page(w, h, c) == [t |-> "page", w |-> w, h |-> h, c |-> c, ov |-> NoOverlay]
\* An entry of the page tree whose object cannot be dereferenced.
Dangling(c) == [t |-> "ref", c |-> c]

IsPageEntry(tok) == tok.t \in {"page", "ref"}

OtherPage(i) == Page(595, 842, i)

FirstEntries == { Page(s[1], s[2], 1) : s \in PageSizes } \cup { Dangling(1) }
OtherEntries(i) == { OtherPage(i), Dangling(i) }

Docs ==
    UNION { { d \in [1..n -> FirstEntries \cup UNION { OtherEntries(i) : i \in 2..(MaxPages + 1) }] :
                \A i \in 1..n : IF i = 1 THEN d[i] \in FirstEntries
                                         ELSE d[i] \in OtherEntries(i) } :
            n \in 0..MaxPages }

PadLens == { 0, ChunkSize + MaxExtra }

PdfFile(doc, pad, closed) ==
    <<Header>> \o doc \o [i \in 1..pad |-> Pad]
               \o (IF closed THEN <<Trailer>> ELSE <<>>)

\* The first n bytes of a JPEG file: FF D8 FF and what follows.
JpegFile(n) == [i \in 1..n |-> Jpeg]

\* The JPEG signature libmagic matches is four bytes long.
JpegMagicLen == 4

Files ==
    { <<>> }
    \cup { JpegFile(n) : n \in { JpegMagicLen - 1, JpegMagicLen,
                                  ChunkSize + MaxExtra } }
    \cup { PdfFile(d, n, c) : d \in Docs, n \in PadLens, c \in BOOLEAN }

\* qr_content, by its length in bytes (byte-mode payloads).
Payloads == { 5, 33, 2953, 2954 }

\* pdf_file.filename, as the code points of its characters.
Filenames == { <<100, 111, 99, 46, 112, 100, 102>>,     \* doc.pdf
               <<1092, 46, 112, 100, 102>> }            \* a Cyrillic letter, .pdf


\* UploadFile.read(n) at position p: the bytes returned.
FileRead(f, p, n) == SubSeq(f, p + 1, Min(p + n, Len(f)))
\* UploadFile.read() at position p: everything from p to the end.
FileReadAll(f, p) == SubSeq(f, p + 1, Len(f))

\* magic.from_buffer(chunk, mime=True).  The start of a JPEG file is
\* recognised from its fourth byte on; shorter, FF alone is binary data and
\* FF D8, FF D8 FF pass for text.
MagicFromBuffer(chunk) ==
    IF chunk = <<>> THEN "application/x-empty"
    ELSE IF Head(chunk).t = "%PDF-" THEN PdfMime
    ELSE IF Head(chunk).t = "jpeg"
    THEN IF Len(chunk) >= JpegMagicLen THEN "image/jpeg"
         ELSE IF Len(chunk) = 1 THEN "application/octet-stream"
         ELSE "text/plain"
    ELSE "application/octet-stream"

\* The mime gate of the endpoint: content_type != "application/pdf" rejects.
MimeAcceptedAlways(ct) == TRUE
MimeAccepted(ct) == ct = PdfMime

\* ------------------------------------------------------------------------
\* PdfReader(stream, strict=False)
\* ------------------------------------------------------------------------
NoReader == [ok |-> FALSE, pages |-> <<>>]

\* Position of the last header in the buffer, 0 if there is none.
LastHeader(b) ==
    LET hs == { i \in 1..Len(b) : b[i].t = "%PDF-" }
    IN  IF hs = {} THEN 0 ELSE CHOOSE i \in hs : \A j \in hs : j <= i

PageEntries(b, from) == SelectSeq(SubSeq(b, from, Len(b)), IsPageEntry)

\* The lenient parse: an empty stream and a stream without the end-of-file
\* marker are errors; the page tree is that of the last revision.
Parse(b) ==
    IF b = <<>> THEN NoReader
    ELSE IF b[Len(b)].t # "%%EOF" THEN NoReader
    ELSE [ok |-> TRUE, pages |-> PageEntries(b, LastHeader(b) + 1)]

\* len(reader.pages) flattens the whole page tree, and raises when an
\* entry of it cannot be dereferenced.
FlattenRaises(pages) == \E i \in 1..Len(pages) : pages[i].t # "page"

\* validate_pdf: every exception is caught and turned into False.
validate_pdf_parse_only(b) ==
    Parse(b).ok
validate_pdf_no_page_check(b) ==
    LET r == Parse(b)
    IN  IF ~r.ok THEN FALSE
        ELSE IF FlattenRaises(r.pages) THEN FALSE
        ELSE TRUE
validate_pdf(b) ==
    LET r == Parse(b)
    IN  IF ~r.ok THEN FALSE
        ELSE IF FlattenRaises(r.pages) THEN FALSE
        ELSE IF Len(r.pages) = 0 THEN FALSE
        ELSE TRUE

\* ------------------------------------------------------------------------
\* generate_qr_code_svg and svg2rlg
\* ------------------------------------------------------------------------

\* Byte-mode capacity of QR versions 1..40 at error correction level L.
ByteCapacityL ==
    << 17, 32, 53, 78, 106, 134, 154, 192, 230, 271,
       321, 367, 425, 458, 520, 586, 644, 718, 792, 858,
       929, 1003, 1091, 1171, 1273, 1367, 1465, 1528, 1628, 1732,
       1840, 1952, 2068, 2188, 2303, 2431, 2563, 2699, 2809, 2953 >>

MaxVersion == Len(ByteCapacityL)

\* qr.make(fit=True): the smallest version that holds n bytes, 0 if none.
FitVersion(n) ==
    IF n > ByteCapacityL[MaxVersion] THEN 0
    ELSE CHOOSE v \in 1..MaxVersion :
            /\ n <= ByteCapacityL[v]
            /\ \A u \in 1..(v - 1) : n > ByteCapacityL[u]

\* Side of the SVG in millimetres: (modules + 2*border) * box_size / 10.
SvgSide(v) == ((17 + 4 * v + 2 * border) * box_size) \div 10

\* Points per millimetre, as reportlab.lib.units computes it: inch = 72.0,
\* cm = inch / 2.54, mm = cm * 0.1.
MmPoints == DblMul(DblDiv(OfInt(72), OfRatio(254, 100)), Tenth)

\* Side of the drawing svg2rlg returns for an SVG of that many millimetres.
DrawingSide(mm) == DblMul(OfInt(mm), MmPoints)

NoDrawing == [ok |-> FALSE, side |-> Zero]

\* renderPDF.draw(drawing, can, x, y) raises on a drawing that is None.
DrawRaisesNever(d) == FALSE
DrawRaises(d) == ~d.ok

\* Pages added to the writer: the merged first page, then pages[1:].
OutputPagesReversed(merged, pages) ==
    <<merged>> \o [i \in 1..(Len(pages) - 1) |-> pages[Len(pages) + 1 - i]]
OutputPages(merged, pages) == <<merged>> \o SubSeq(pages, 2, Len(pages))

\* writer.write(output_stream)
Serialize(pages) == <<Header>> \o pages \o <<Trailer>>

\* Starlette encodes the headers of a response as latin-1.
Latin1Encodable(name) == \A i \in 1..Len(name) : name[i] <= 255

\* ------------------------------------------------------------------------
\* Exceptions and responses
\* ------------------------------------------------------------------------
NoExc == [type |-> "none", status |-> 0, detail |-> ""]
HTTPException(status, detail) ==
    [type |-> "HTTPException", status |-> status, detail |-> detail]
Error(detail) == [type |-> "Exception", status |-> 0, detail |-> detail]

NoResponse == [status |-> 0, detail |-> NoExc, body |-> <<>>]

\* ------------------------------------------------------------------------
\* State
\* ------------------------------------------------------------------------
VARIABLES
    pc,            \* position of the request in the handler
    file,          \* content of the upload
    filename,      \* name of the upload
    pos,           \* read position of the upload
    qr_content,    \* length of the text to encode
    first_chunk, content_type, pdf_bytes,
    calls,         \* collaborators invoked so far, in order
    exc,           \* exception in flight
    reader, first_page, qr_svg, drawing, overlay, writer, result_bytes,
    response

vars == <<pc, file, filename, pos, qr_content, first_chunk, content_type,
          pdf_bytes, calls, exc, reader, first_page, qr_svg, drawing,
          overlay, writer, result_bytes, response>>

\* The variables of the upload and of the request parameters.
request == <<file, filename, qr_content>>
\* The locals of add_qr_to_pdf.
locals == <<reader, first_page, qr_svg, drawing, overlay, writer,
            result_bytes>>

Init ==
    /\ pc = "read_chunk"
    /\ file \in Files
    /\ filename \in Filenames
    /\ pos = 0
    /\ qr_content \in Payloads
    /\ first_chunk = <<>>
    /\ content_type = ""
    /\ pdf_bytes = <<>>
    /\ calls = <<>>
    /\ exc = NoExc
    /\ reader = NoReader
    /\ first_page = NoPage
    /\ qr_svg = 0
    /\ drawing = NoDrawing
    /\ overlay = NoOverlay
    /\ writer = <<>>
    /\ result_bytes = <<>>
    /\ response = NoResponse

\* ------------------------------------------------------------------------
\* add_qr_to_pdf_endpoint and add_qr_to_pdf, one action per step.  Each
\* await of the endpoint ends a step.  An exception raised inside
\* add_qr_to_pdf passes through its handler (lines 155-158, which logs and
\* re-raises it unchanged) to the handler of the endpoint (lines 201-204).
\* ------------------------------------------------------------------------
Raise(e) ==
    /\ exc' = e
    /\ pc' = "except"

\* Line 181: first_chunk = await pdf_file.read(2048).
ReadFirstChunk ==
    /\ pc = "read_chunk"
    /\ first_chunk' = FileRead(file, pos, ChunkSize)
    /\ pos' = pos + Len(first_chunk')
    /\ calls' = calls \o <<"read(2048)">>
    /\ pc' = "sniff"
    /\ UNCHANGED <<request, content_type, pdf_bytes, exc, locals, response>>

\* Lines 182-184: sniff the chunk, reject what is not a PDF.
SniffMime ==
    /\ pc = "sniff"
    /\ content_type' = MagicFromBuffer(first_chunk)
    /\ calls' = calls \o <<"magic.from_buffer">>
    /\ IF MimeAccepted(content_type')
       THEN pc' = "seek" /\ exc' = exc
       ELSE Raise(HTTPException(400, "Uploaded file is not a PDF"))
    /\ UNCHANGED <<request, pos, first_chunk, pdf_bytes, locals, response>>

\* Line 187: await pdf_file.seek(0).
SeekStart ==
    /\ pc = "seek"
    /\ pos' = 0
    /\ calls' = calls \o <<"seek(0)">>
    /\ pc' = "read_rest"
    /\ UNCHANGED <<request, first_chunk, content_type, pdf_bytes, exc,
                   locals, response>>

\* Line 188: pdf_bytes = first_chunk + await pdf_file.read().
ReadCompleteFile ==
    /\ pc = "read_rest"
    /\ pdf_bytes' = first_chunk \o FileReadAll(file, pos)
    /\ pos' = Len(file)
    /\ calls' = calls \o <<"read()">>
    /\ pc' = "call"
    /\ UNCHANGED <<request, first_chunk, content_type, exc, locals,
                   response>>

\* Line 191: the call of add_qr_to_pdf.
CallAddQrToPdf ==
    /\ pc = "call"
    /\ calls' = calls \o <<"add_qr_to_pdf">>
    /\ pc' = "validate"
    /\ UNCHANGED <<request, pos, first_chunk, content_type, pdf_bytes, exc,
                   locals, response>>

\* Lines 97-98.
ValidateInput ==
    /\ pc = "validate"
    /\ calls' = calls \o <<"validate_pdf", "PdfReader">>
    /\ IF validate_pdf(pdf_bytes)
       THEN pc' = "parse" /\ exc' = exc
       ELSE Raise(HTTPException(400, "Invalid or corrupted PDF file"))
    /\ UNCHANGED <<request, pos, first_chunk, content_type, pdf_bytes,
                   locals, response>>

\* Lines 101-111: parse again, reject zero pages, take the first page.
ReadPdf ==
    /\ pc = "parse"
    /\ calls' = calls \o <<"PdfReader">>
    /\ LET r == Parse(pdf_bytes)
       IN  IF ~r.ok
           THEN /\ Raise(Error("PdfReadError"))
                /\ UNCHANGED <<reader, first_page>>
           ELSE IF FlattenRaises(r.pages)
           THEN /\ Raise(Error("page not accessible"))
                /\ reader' = r
                /\ UNCHANGED first_page
           ELSE IF Len(r.pages) = 0
           THEN /\ Raise(HTTPException(400, "PDF file is empty"))
                /\ reader' = r
                /\ UNCHANGED first_page
           ELSE /\ reader' = r
                /\ first_page' = r.pages[1]
                /\ pc' = "encode"
                /\ exc' = exc
    /\ UNCHANGED <<request, pos, first_chunk, content_type, pdf_bytes,
                   qr_svg, drawing, overlay, writer, result_bytes, response>>

\* Line 114: generate_qr_code_svg logs and re-raises an encoding failure.
GenerateQr ==
    /\ pc = "encode"
    /\ calls' = calls \o <<"generate_qr_code_svg">>
    /\ LET v == FitVersion(qr_content)
       IN  IF v = 0
           THEN /\ Raise(Error("DataOverflowError"))
                /\ UNCHANGED qr_svg
           ELSE /\ qr_svg' = SvgSide(v)
                /\ pc' = "convert"
                /\ exc' = exc
    /\ UNCHANGED <<request, pos, first_chunk, content_type, pdf_bytes,
                   reader, first_page, drawing, overlay, writer,
                   result_bytes, response>>

\* Lines 115-116: svg2rlg returns the drawing, or None when it cannot
\* convert the image; it does not raise.
ConvertSvg ==
    /\ pc = "convert"
    /\ calls' = calls \o <<"svg2rlg">>
    /\ \E converted \in BOOLEAN :
         drawing' = IF converted
                    THEN [ok |-> TRUE, side |-> DrawingSide(qr_svg)]
                    ELSE NoDrawing
    /\ pc' = "draw"
    /\ UNCHANGED <<request, pos, first_chunk, content_type, pdf_bytes, exc,
                   reader, first_page, qr_svg, overlay, writer,
                   result_bytes, response>>

\* Lines 119-141: size and place the overlay, draw the white background
\* and then the QR drawing, at its own size, on a canvas of the size of the
\* first page.  The background is on the canvas before the drawing is
\* rendered, so a failing render leaves the geometry computed.
DrawOverlay ==
    /\ pc = "draw"
    /\ calls' = calls \o <<"renderPDF.draw">>
    /\ \E target \in TargetSizes(first_page.w, first_page.h) :
       \E size \in { QrSize(target,
                            MaxQrSize(first_page.w, first_page.h)) } :
       LET W    == first_page.w
           H    == first_page.h
           x    == OverlayOrigin(W, size)
           y    == OverlayOrigin(H, size)
           geom == [sized |-> TRUE, drawn |-> FALSE,
                    qr_size |-> size, x |-> x, y |-> y,
                    bg_x |-> DblSub(x, OfInt(padding)),
                    bg_y |-> DblSub(y, OfInt(padding)),
                    bg_side |-> DblAdd(size, OfInt(2 * padding)),
                    img_x |-> Zero, img_y |-> Zero, img_side |-> Zero]
       IN  IF DrawRaises(drawing)
           THEN /\ Raise(Error("AttributeError"))
                /\ overlay' = geom
           ELSE /\ overlay' = [geom EXCEPT !.drawn = TRUE,
                                           !.img_x = x, !.img_y = y,
                                           !.img_side = drawing.side]
                /\ pc' = "merge"
                /\ exc' = exc
    /\ UNCHANGED <<request, pos, first_chunk, content_type, pdf_bytes,
                   reader, first_page, qr_svg, drawing, writer,
                   result_bytes, response>>

\* Lines 143-144: read the overlay back and merge its page onto the first
\* page.  first_page is reader.pages[0] itself, so the reader sees the
\* merged page too.
MergeOverlay ==
    /\ pc = "merge"
    /\ calls' = calls \o <<"PdfReader", "merge_page">>
    /\ first_page' = [first_page EXCEPT !.ov = overlay]
    /\ reader' = [reader EXCEPT !.pages[1] = first_page']
    /\ pc' = "write"
    /\ UNCHANGED <<request, pos, first_chunk, content_type, pdf_bytes, exc,
                   qr_svg, drawing, overlay, writer, result_bytes, response>>

\* Lines 147-154: add the pages to the writer and serialize it.
WritePages ==
    /\ pc = "write"
    /\ calls' = calls \o <<"PdfWriter.write">>
    /\ writer' = OutputPages(first_page, reader.pages)
    /\ result_bytes' = Serialize(writer')
    /\ pc' = "respond"
    /\ UNCHANGED <<request, pos, first_chunk, content_type, pdf_bytes, exc,
                   reader, first_page, qr_svg, drawing, overlay, response>>

\* Lines 192-200: the success response.  Its Content-Disposition header
\* carries the filename, and building the response raises when the header
\* cannot be encoded.
SendResponse ==
    /\ pc = "respond"
    /\ calls' = calls \o <<"StreamingResponse">>
    /\ IF Latin1Encodable(filename)
       THEN /\ response' = [status |-> 200, detail |-> NoExc,
                            body |-> result_bytes]
            /\ pc' = "done"
            /\ exc' = exc
       ELSE /\ Raise(Error("UnicodeEncodeError"))
            /\ UNCHANGED response
    /\ UNCHANGED <<request, pos, first_chunk, content_type, pdf_bytes,
                   locals>>

\* Lines 201-204: except Exception catches every exception of the body,
\* HTTPException included, and raises HTTPException(500, str(e)).
EndpointExcept ==
    /\ pc = "except"
    /\ response' = [status |-> 500, detail |-> exc, body |-> <<>>]
    /\ pc' = "done"
    /\ UNCHANGED <<request, pos, first_chunk, content_type, pdf_bytes,
                   calls, exc, locals>>

Next ==
    \/ ReadFirstChunk
    \/ SniffMime
    \/ SeekStart
    \/ ReadCompleteFile
    \/ CallAddQrToPdf
    \/ ValidateInput
    \/ ReadPdf
    \/ GenerateQr
    \/ ConvertSvg
    \/ DrawOverlay
    \/ MergeOverlay
    \/ WritePages
    \/ SendResponse
    \/ EndpointExcept

Spec == Init /\ [][Next]_vars

\* add_qr_to_pdf called on its own, on any buffer: it ends by returning
\* (pc = "respond") or by raising (pc = "except").
InitDirect ==
    /\ pc = "validate"
    /\ file = <<>>
    /\ filename = <<>>
    /\ pos = 0
    /\ qr_content \in Payloads
    /\ first_chunk = <<>>
    /\ content_type = ""
    /\ pdf_bytes \in Files
    /\ calls = <<"add_qr_to_pdf">>
    /\ exc = NoExc
    /\ reader = NoReader
    /\ first_page = NoPage
    /\ qr_svg = 0
    /\ drawing = NoDrawing
    /\ overlay = NoOverlay
    /\ writer = <<>>
    /\ result_bytes = <<>>
    /\ response = NoResponse

NextDirect ==
    \/ ValidateInput
    \/ ReadPdf
    \/ GenerateQr
    \/ ConvertSvg
    \/ DrawOverlay
    \/ MergeOverlay
    \/ WritePages

SpecDirect == InitDirect /\ [][NextDirect]_vars

\* ------------------------------------------------------------------------
\* Properties
\* ------------------------------------------------------------------------
Called(name) == \E i \in 1..Len(calls) : calls[i] = name

InputPages == Parse(pdf_bytes).pages
OutputDoc == Parse(result_bytes).pages

\* The buffer holds a document the lenient parser reads, with at least
\* one page and every entry of its page tree a readable page.
DocumentReadable(b) ==
    /\ b # <<>>
    /\ b[Len(b)].t = "%%EOF"
    /\ \E i \in (LastHeader(b) + 1)..Len(b) : b[i].t = "page"
    /\ \A i \in (LastHeader(b) + 1)..Len(b) : b[i].t # "ref"

\* C1: a request that fails validation (the sniffed mime type is not
\* application/pdf, or validate_pdf returns false for the uploaded bytes)
\* is answered with status 400.
C1_ValidationFailureIs400 ==
    (/\ pc = "done"
     /\ \/ content_type # PdfMime
        \/ Called("validate_pdf") /\ ~DocumentReadable(pdf_bytes))
    => response.status = 400

\* C2: when add_qr_to_pdf succeeds on a document of N >= 1 pages, the
\* output document has N pages, its first page is the first input page with
\* the overlay merged onto it, and pages 2..N are the input pages, unchanged
\* and in order.
C2_PagesPreserved ==
    pc = "respond" =>
        /\ Len(InputPages) >= 1
        /\ Len(OutputDoc) = Len(InputPages)
        /\ overlay.drawn
        /\ OutputDoc[1] = [InputPages[1] EXCEPT !.ov = overlay]
        /\ \A i \in 2..Len(InputPages) : OutputDoc[i] = InputPages[i]

C2_Witness ==
    /\ pc = "respond"
    /\ Len(InputPages) = 3
    /\ Len(OutputDoc) = 3
    /\ OutputDoc[1].ov.drawn
    /\ OutputDoc[2] = OtherPage(2)
    /\ OutputDoc[3] = OtherPage(3)
    /\ OutputDoc[2] # OutputDoc[3]

\* C3: the computed qr_size is at least 100 points; on a page with
\* min(W, H) >= 500 it is at most 0.2 * min(W, H), the product taken as the
\* code takes it; on a page with min(W, H) < 500 it is exactly 100 points.
C3_SizeClamp ==
    overlay.sized =>
        LET m == Min(first_page.w, first_page.h)
            q == overlay.qr_size
        IN  /\ DblLeq(OfInt(100), q)
            /\ m >= 500 => DblLeq(q, DblMul(OfInt(m), Fifth))
            /\ m < 500 => q = OfInt(100)

\* The ceiling decides, above the floor and below the target, and it is the
\* float product 643 * 0.2, a double below 643 / 5.
C3_Witness ==
    /\ overlay.sized
    /\ Min(first_page.w, first_page.h) = 643
    /\ overlay.qr_size = DblMul(OfInt(643), Fifth)
    /\ DblLess(OfInt(100), overlay.qr_size)
    /\ BigMul(overlay.qr_size.man, <<5>>)
          # ShiftLeft(ToBig(643), -overlay.qr_size.exp)
    /\ BigLeq(BigMul(overlay.qr_size.man, <<5>>),
              ShiftLeft(ToBig(643), -overlay.qr_size.exp))
    /\ \E target \in TargetSizes(first_page.w, first_page.h) :
          DblLess(overlay.qr_size, target)

\* C4: the QR drawing occupies exactly the square of side qr_size with
\* lower-left corner (x, y), and so stays inside the white background.
C4_DrawingFillsSquare ==
    overlay.drawn =>
        /\ overlay.img_x = overlay.x
        /\ overlay.img_y = overlay.y
        /\ overlay.img_side = overlay.qr_size
        /\ DblLeq(DblAdd(overlay.img_x, overlay.img_side),
                  DblAdd(overlay.bg_x, overlay.bg_side))
        /\ DblLeq(DblAdd(overlay.img_y, overlay.img_side),
                  DblAdd(overlay.bg_y, overlay.bg_side))

C6_NoPartialOutput ==
    /\ response.status = 200 =>
          /\ exc = NoExc
          /\ Latin1Encodable(filename)
          /\ content_type = PdfMime
          /\ DocumentReadable(pdf_bytes)
          /\ reader.ok
          /\ FitVersion(qr_content) # 0
          /\ qr_svg # 0
          /\ drawing.ok
          /\ overlay.drawn
          /\ first_page.ov = overlay
          /\ Len(writer) = Len(reader.pages)
          /\ \A i \in 1..Len(writer) : writer[i].t = "page"
          /\ result_bytes = Serialize(writer)
          /\ response.body = result_bytes
    /\ (pc = "done" /\ response.status # 200) =>
          /\ response.status >= 400
          /\ response.body = <<>>
    /\ (pc = "done" /\ (exc # NoExc \/ (Called("svg2rlg") /\ ~drawing.ok))) =>
          response.status # 200

C6_Witness ==
    /\ pc = "done"
    /\ Called("svg2rlg")
    /\ ~drawing.ok
    /\ overlay.sized
    /\ response.status = 500
    /\ response.body = <<>>

\* The state in which validate_pdf has just returned to add_qr_to_pdf.
JustValidated ==
    /\ pc # "done"
    /\ Len(calls) >= 2
    /\ calls[Len(calls) - 1] = "validate_pdf"

\* C7: validate_pdf raises nothing and fails closed: it returns true only
\* when the lenient parse succeeds, the document has a page and the first
\* page can be dereferenced; it returns false for an empty buffer, for
\* content that is not a PDF, for a document without pages and for a parse
\* error.
C7_ValidateFailsClosed ==
    JustValidated =>
        /\ pc \in {"parse", "except"}
        /\ pc = "parse" => /\ Parse(pdf_bytes).ok
                           /\ Len(InputPages) >= 1
                           /\ InputPages[1].t = "page"
                           /\ exc = NoExc
        /\ pc = "except" =>
               exc = HTTPException(400, "Invalid or corrupted PDF file")
        /\ pdf_bytes = <<>> => pc = "except"
        /\ (pdf_bytes # <<>> /\ Head(pdf_bytes).t = "jpeg") => pc = "except"
        /\ ~Parse(pdf_bytes).ok => pc = "except"
        /\ (Parse(pdf_bytes).ok /\ Len(InputPages) = 0) => pc = "except"

C7_Witness ==
    /\ JustValidated
    /\ pc = "except"
    /\ Parse(pdf_bytes).ok
    /\ Len(InputPages) >= 1
    /\ InputPages[1].t = "ref"

\* C8: when the sniffed mime type is not application/pdf the request is
\* rejected without the rest of the file being read and without
\* validate_pdf, the parser, the QR encoder or add_qr_to_pdf being invoked.
C8_SniffShortCircuits ==
    (content_type # "" /\ content_type # PdfMime) =>
        /\ calls = <<"read(2048)", "magic.from_buffer">>
        /\ pos = Len(first_chunk)
        /\ pos <= ChunkSize
        /\ pdf_bytes = <<>>
        /\ reader = NoReader
        /\ qr_svg = 0
        /\ pc \in {"except", "done"}
        /\ exc = HTTPException(400, "Uploaded file is not a PDF")
        /\ pc = "done" => response.status >= 400 /\ response.body = <<>>

C8_Witness ==
    /\ pc = "done"
    /\ content_type = "image/jpeg"
    /\ Len(file) > ChunkSize
    /\ pos = ChunkSize
    /\ response.status >= 400

\* C9: the buffer handed to add_qr_to_pdf is byte for byte the content of
\* the upload.
C9_BufferIsUpload ==
    Called("add_qr_to_pdf") => pdf_bytes = file

\* C10: the exception "PDF file is empty" is never raised: a buffer whose
\* parse has zero pages is rejected by validate_pdf before the second page
\* count runs.
C10_EmptyPdfUnreachable ==
    /\ exc # HTTPException(400, "PDF file is empty")
    /\ (Called("validate_pdf") /\ Parse(pdf_bytes).ok /\ Len(InputPages) = 0)
          => exc = HTTPException(400, "Invalid or corrupted PDF file")

C10_Witness ==
    /\ Called("validate_pdf")
    /\ Parse(pdf_bytes).ok
    /\ Len(InputPages) = 0
    /\ pc = "except"
    /\ exc = HTTPException(400, "Invalid or corrupted PDF file")

====
